---------------------------- MODULE Spec2Model ----------------------------
(***************************************************************************)
(* Model of src/src/controls.rs: the input layer of a 2D platformer.       *)
(*                                                                         *)
(* Three systems are registered by ControlsPlugin and run once per frame   *)
(* in an order the engine chooses:                                         *)
(*   keyboard_controls_system  W/A/S/D          -> Movement                *)
(*   dash_direction_arrows     arrow keys       -> Dash                    *)
(*   cursor_system             window cursor    -> MouseCoordinates, Aim   *)
(* Commands queued by a system (spawn / despawn) are deferred: the engine  *)
(* applies them at the end of the stage, after every system has run.       *)
(*                                                                         *)
(* f32 values are modelled as integers: every value the code computes is   *)
(* a small integer, which f32 represents exactly.                          *)
(***************************************************************************)
EXTENDS Integers, Sequences, FiniteSets

VARIABLES
    movement,    \* resource Movement
    dash,        \* resource Dash
    mouse,       \* resource MouseCoordinates
    markers,     \* the entities carrying the Aim component, with their translation
    commands,    \* the Commands queued in this stage, not yet applied
    kb_pressed,  \* Input<KeyCode>: the keys held in this frame
    kb_prev,     \* the keys that were held in the previous frame
    cursor,      \* Window::cursor_position(): {} is None, {p} is Some(p)
    ran,         \* the systems that have run in this frame
    flushed      \* TRUE once the stage's commands have been applied

vars == <<movement, dash, mouse, markers, commands,
          kb_pressed, kb_prev, cursor, ran, flushed>>

---------------------------------------------------------------------------
(* Bounds of the model *)

\* |direction.x| and |direction.y| never exceed MaxDir: a frame whose input
\* would push the accumulated direction further is not generated.
MaxDir == 2

\* The window is 2*HalfWidth by 2*HalfHeight pixels.
HalfWidth == 1

HalfHeight == 1

---------------------------------------------------------------------------
(* Keys *)

KeyboardKeys == {"W", "A", "S", "D"}

ArrowKeys == {"Up", "Down", "Left", "Right"}

Systems == {"cursor", "keyboard", "dash"}

\* The input snapshot the engine hands to a system: the keys held, and the
\* keys pressed in this frame (held now, not held in the previous frame).
Keyboard == [pressed |-> kb_pressed, just_pressed |-> kb_pressed \ kb_prev]

\* KeyboardControls::is_pressed: some key of the list is held.
is_pressed(kb, keys) == \E k \in keys : k \in kb.pressed

\* KeyboardControls::is_just_pressed: some key of the list was pressed in this frame.
is_just_pressed(kb, keys) == \E k \in keys : k \in kb.just_pressed

---------------------------------------------------------------------------
(* Resources *)

DashDirectionDefault == [x |-> 0, y |-> 0]

DashDefault ==
    [trying_to_dash |-> FALSE,
     is_dashing     |-> FALSE,
     dashed         |-> 0,
     direction      |-> [x |-> 0, y |-> 0],
     duration       |-> 0]

MovementDefault ==
    [x |-> 0, jump |-> FALSE, jumped |-> 0, is_fast_falling |-> FALSE, lock_x |-> FALSE]

MouseCoordinatesDefault == [x |-> 0, y |-> 0]

\* DashDirection::add
add(self, to_add) == [x |-> self.x + to_add.x, y |-> self.y + to_add.y]

\* DashDirection::is_empty
is_empty(self) == self.x = 0 /\ self.y = 0

---------------------------------------------------------------------------
(* keyboard_controls_system *)

\* Faulty variant: the axis is added onto the stored value instead of replacing it.
keyboard_accumulates_x(keyboard, m) ==
    LET s1 == IF is_pressed(keyboard, {"D"}) THEN 1 ELSE 0
        s2 == IF is_pressed(keyboard, {"A"}) THEN s1 - 1 ELSE s1
    IN  [m EXCEPT !.jump = IF is_just_pressed(keyboard, {"W"}) THEN TRUE ELSE @,
                  !.is_fast_falling = IF is_pressed(keyboard, {"S"}) THEN TRUE ELSE @,
                  !.x = IF @ + s2 > 1 THEN 1 ELSE IF @ + s2 < -1 THEN -1 ELSE @ + s2]

\* Faulty variant: the jump is level-triggered (is_pressed instead of is_just_pressed).
keyboard_level_jump(keyboard, m) ==
    LET s1 == IF is_pressed(keyboard, {"D"}) THEN 1 ELSE 0
        s2 == IF is_pressed(keyboard, {"A"}) THEN s1 - 1 ELSE s1
    IN  [m EXCEPT !.jump = IF is_pressed(keyboard, {"W"}) THEN TRUE ELSE @,
                  !.is_fast_falling = IF is_pressed(keyboard, {"S"}) THEN TRUE ELSE @,
                  !.x = s2]

\* Faulty variant: the fast fall is edge-triggered (is_just_pressed instead of is_pressed).
keyboard_edge_fast_fall(keyboard, m) ==
    LET s1 == IF is_pressed(keyboard, {"D"}) THEN 1 ELSE 0
        s2 == IF is_pressed(keyboard, {"A"}) THEN s1 - 1 ELSE s1
    IN  [m EXCEPT !.jump = IF is_just_pressed(keyboard, {"W"}) THEN TRUE ELSE @,
                  !.is_fast_falling = IF is_just_pressed(keyboard, {"S"}) THEN TRUE ELSE @,
                  !.x = s2]

\* The new Movement. controls: up = [W], down = [S], right = [D], left = [A].
keyboard_controls_system(keyboard, m) ==
    LET sides0 == 0
        sides1 == IF is_pressed(keyboard, {"D"}) THEN sides0 + 1 ELSE sides0
        sides2 == IF is_pressed(keyboard, {"A"}) THEN sides1 - 1 ELSE sides1
    IN  [m EXCEPT !.jump = IF is_just_pressed(keyboard, {"W"}) THEN TRUE ELSE @,
                  !.is_fast_falling = IF is_pressed(keyboard, {"S"}) THEN TRUE ELSE @,
                  !.x = sides2]

---------------------------------------------------------------------------
(* dash_direction_arrows *)

\* The closure to_num: 1 when a key of the list was pressed in this frame.
to_num(kb, x) == IF is_just_pressed(kb, x) THEN 1 ELSE 0

\* Faulty variant: the fold starts from the zero direction, not from the stored one.
dash_folds_from_zero(kb, d) ==
    LET up    == [y |-> to_num(kb, {"Up"}), x |-> 0]
        down  == [y |-> 0 - to_num(kb, {"Down"}), x |-> 0]
        left  == [y |-> 0, x |-> 0 - to_num(kb, {"Left"})]
        right == [y |-> 0, x |-> to_num(kb, {"Right"})]
        direction == add(add(add(add(DashDirectionDefault, up), down), left), right)
    IN  IF ~is_empty(direction)
        THEN [d EXCEPT !.trying_to_dash = TRUE, !.direction = direction]
        ELSE d

\* Faulty variant: the request is raised on any arrow press, the direction stored or not.
dash_tries_on_any_press(kb, d) ==
    LET up    == [y |-> to_num(kb, {"Up"}), x |-> 0]
        down  == [y |-> 0 - to_num(kb, {"Down"}), x |-> 0]
        left  == [y |-> 0, x |-> 0 - to_num(kb, {"Left"})]
        right == [y |-> 0, x |-> to_num(kb, {"Right"})]
        direction == add(add(add(add(d.direction, up), down), left), right)
    IN  IF is_just_pressed(kb, ArrowKeys)
        THEN [d EXCEPT !.trying_to_dash = TRUE, !.direction = direction]
        ELSE d

\* The new Dash. controls: up = [Up], down = [Down], right = [Right], left = [Left].
\* The fold over [up, down, left, right] starts from the stored direction.
dash_direction_arrows(kb, d) ==
    LET up    == [y |-> to_num(kb, {"Up"}), x |-> 0]
        down  == [y |-> 0 - to_num(kb, {"Down"}), x |-> 0]
        left  == [y |-> 0, x |-> 0 - to_num(kb, {"Left"})]
        right == [y |-> 0, x |-> to_num(kb, {"Right"})]
        direction == add(add(add(add(d.direction, up), down), left), right)
    IN  IF ~is_empty(direction)
        THEN [d EXCEPT !.trying_to_dash = TRUE, !.direction = direction]
        ELSE d

---------------------------------------------------------------------------
(* cursor_system *)

\* The main camera: orthographic, at the world origin, one world unit per
\* pixel, so that the corners of the window map to (+-HalfWidth, +-HalfHeight).
CameraTranslation == [x |-> 0, y |-> 0]

WindowWidth == 2 * HalfWidth

WindowHeight == 2 * HalfHeight

\* Screen position [0..resolution] to ndc [-1..1], then ndc to world space.
\* ndc is kept as its numerator over the window size; the division is exact.
ScreenToWorld(screen_pos) ==
    LET ndc_x == 2 * screen_pos.x - WindowWidth
        ndc_y == 2 * screen_pos.y - WindowHeight
    IN  [x |-> (ndc_x * HalfWidth) \div WindowWidth + CameraTranslation.x,
         y |-> (ndc_y * HalfHeight) \div WindowHeight + CameraTranslation.y]

\* Query::get_single is Ok exactly when one entity matches.
get_single_is_ok(ents) == Cardinality(ents) = 1

SpawnAim == [op |-> "spawn", id |-> 0]

DespawnAim(ent) == [op |-> "despawn", id |-> ent.id]

\* Faulty variant: the marker is spawned in every frame the cursor is inside the window.
cursor_always_spawns(cmds, ents, wnd_cursor, mouse_res) ==
    LET inside  == wnd_cursor # {}
        new_res == IF inside
                   THEN ScreenToWorld(CHOOSE p \in wnd_cursor : TRUE)
                   ELSE mouse_res
        queued  == IF inside
                   THEN Append(cmds, SpawnAim)
                   ELSE IF get_single_is_ok(ents)
                        THEN Append(cmds, DespawnAim(CHOOSE e \in ents : TRUE))
                        ELSE cmds
    IN  [commands |-> queued,
         mouse    |-> new_res,
         markers  |-> {[e EXCEPT !.x = new_res.x, !.y = new_res.y] : e \in ents}]

\* The queue, MouseCoordinates and the Aim entities after the system has run.
\* The spawn and the despawn are only queued; the loop over q_aim_transform
\* moves the entities that exist while the system runs.
cursor_system(cmds, ents, wnd_cursor, mouse_res) ==
    LET inside  == wnd_cursor # {}
        new_res == IF inside
                   THEN ScreenToWorld(CHOOSE p \in wnd_cursor : TRUE)
                   ELSE mouse_res
        queued  == IF inside
                   THEN IF ~get_single_is_ok(ents)
                        THEN Append(cmds, SpawnAim)
                        ELSE cmds
                   ELSE IF get_single_is_ok(ents)
                        THEN Append(cmds, DespawnAim(CHOOSE e \in ents : TRUE))
                        ELSE cmds
    IN  [commands |-> queued,
         mouse    |-> new_res,
         markers  |-> {[e EXCEPT !.x = new_res.x, !.y = new_res.y] : e \in ents}]

\* The id of a new entity: the smallest one not in use.
FreshId(ents) ==
    CHOOSE i \in 1..(Cardinality(ents) + 1) :
        /\ \A e \in ents : e.id # i
        /\ \A j \in 1..(i - 1) : \E e \in ents : e.id = j

\* One queued command applied: a spawned sprite has the default translation.
ApplyCommand(c, ents) ==
    IF c.op = "spawn"
    THEN ents \cup {[id |-> FreshId(ents), x |-> 0, y |-> 0]}
    ELSE {e \in ents : e.id # c.id}

RECURSIVE ApplyCommands(_, _)
\* The queue applied in order, at the end of the stage.
ApplyCommands(cmds, ents) ==
    IF cmds = <<>>
    THEN ents
    ELSE ApplyCommands(Tail(cmds), ApplyCommand(Head(cmds), ents))

---------------------------------------------------------------------------
(* The frame: ControlsPlugin's three systems, the stage end, the next input *)

\* The resources and entities the systems work on.
World ==
    [movement |-> movement, dash |-> dash, mouse |-> mouse,
     markers |-> markers, commands |-> commands]

\* What the engine provides in a frame: the keyboard snapshot and the cursor.
FrameInput == [kb |-> Keyboard, cursor |-> cursor]

\* Faulty variant: the keyboard system also reads Dash, and does not raise the jump
\* while a dash is requested.
RunSystemKeyboardReadsDash(name, inp, w) ==
    CASE name = "keyboard" ->
           LET m == keyboard_controls_system(inp.kb, w.movement)
           IN  [w EXCEPT !.movement =
                   IF w.dash.trying_to_dash THEN [m EXCEPT !.jump = w.movement.jump] ELSE m]
      [] name = "dash" ->
           [w EXCEPT !.dash = dash_direction_arrows(inp.kb, w.dash)]
      [] name = "cursor" ->
           LET r == cursor_system(w.commands, w.markers, inp.cursor, w.mouse)
           IN  [w EXCEPT !.commands = r.commands, !.markers = r.markers, !.mouse = r.mouse]

\* One system run on the world: each system gets the resources and queries of
\* its parameter list, and nothing else.
RunSystem(name, inp, w) ==
    CASE name = "keyboard" ->
           [w EXCEPT !.movement = keyboard_controls_system(inp.kb, w.movement)]
      [] name = "dash" ->
           [w EXCEPT !.dash = dash_direction_arrows(inp.kb, w.dash)]
      [] name = "cursor" ->
           LET r == cursor_system(w.commands, w.markers, inp.cursor, w.mouse)
           IN  [w EXCEPT !.commands = r.commands, !.markers = r.markers, !.mouse = r.mouse]

\* A system runs: its writes take effect, its commands are queued.
Run(name) ==
    /\ ~flushed
    /\ LET w == RunSystem(name, FrameInput, World)
       IN  /\ movement' = w.movement
           /\ dash' = w.dash
           /\ mouse' = w.mouse
           /\ markers' = w.markers
           /\ commands' = w.commands
    /\ ran' = ran \cup {name}
    /\ UNCHANGED <<kb_pressed, kb_prev, cursor, flushed>>

\* Each system runs once per frame.
KeyboardStep ==
    /\ "keyboard" \notin ran
    /\ Run("keyboard")

DashStep ==
    /\ "dash" \notin ran
    /\ Run("dash")

CursorStep ==
    /\ "cursor" \notin ran
    /\ Run("cursor")

\* The end of the stage: the queued commands are applied.
EndStage ==
    /\ ~flushed
    /\ markers' = ApplyCommands(commands, markers)
    /\ commands' = <<>>
    /\ flushed' = TRUE
    /\ UNCHANGED <<movement, dash, mouse, kb_pressed, kb_prev, cursor, ran>>

Abs(n) == IF n < 0 THEN 0 - n ELSE n

\* The accumulated direction stays within the model's bound under this input.
WithinMaxDir(held) ==
    LET kb == [pressed |-> held, just_pressed |-> held \ kb_pressed]
        d  == dash_direction_arrows(kb, dash).direction
    IN  Abs(d.x) <= MaxDir /\ Abs(d.y) <= MaxDir

\* The next frame begins: the engine updates the input snapshot.
NextFrame(keys, cursors) ==
    /\ \E held \in SUBSET keys :
          /\ WithinMaxDir(held)
          /\ kb_pressed' = held
    /\ kb_prev' = kb_pressed
    /\ cursor' \in cursors
    /\ ran' = {}
    /\ flushed' = FALSE
    /\ UNCHANGED <<movement, dash, mouse, markers, commands>>

\* The consumer of Movement, outside this file, reads the jump and resets it.
ConsumeJump ==
    /\ movement.jump
    /\ movement' = [movement EXCEPT !.jump = FALSE]
    /\ UNCHANGED <<dash, mouse, markers, commands, kb_pressed, kb_prev, cursor, ran, flushed>>

\* The consumer of Movement, outside this file, cancels the fast fall.
CancelFastFall ==
    /\ movement.is_fast_falling
    /\ movement' = [movement EXCEPT !.is_fast_falling = FALSE]
    /\ UNCHANGED <<dash, mouse, markers, commands, kb_pressed, kb_prev, cursor, ran, flushed>>

\* ControlsPlugin::build: the default resources; no Aim entity, no input yet.
Init ==
    /\ movement = MovementDefault
    /\ dash = DashDefault
    /\ mouse = MouseCoordinatesDefault
    /\ markers = {}
    /\ commands = <<>>
    /\ kb_pressed = {}
    /\ kb_prev = {}
    /\ cursor = {}
    /\ ran = {}
    /\ flushed = FALSE

---------------------------------------------------------------------------
(* Specifications *)

NoCursor == {{}}

\* The cursor positions inside the window, or none.
CursorChoices ==
    {{}} \cup {{[x |-> px, y |-> py]} : px \in 0..WindowWidth, py \in 0..WindowHeight}

\* The keyboard system alone, with the consumer of Movement.
KeyboardFrame ==
    /\ flushed
    /\ NextFrame(KeyboardKeys, NoCursor)

\* The stage ends once every scheduled system has run.
KeyboardEndStage ==
    /\ ran = {"keyboard"}
    /\ EndStage

NextKeyboard ==
    \/ KeyboardFrame
    \/ KeyboardStep
    \/ KeyboardEndStage
    \/ ConsumeJump
    \/ CancelFastFall

SpecKeyboard == Init /\ [][NextKeyboard]_vars

\* The dash system alone, with no external reset of Dash.
DashFrame ==
    /\ flushed
    /\ NextFrame(ArrowKeys, NoCursor)

DashEndStage ==
    /\ ran = {"dash"}
    /\ EndStage

NextDash ==
    \/ DashFrame
    \/ DashStep
    \/ DashEndStage

SpecDash == Init /\ [][NextDash]_vars

\* The cursor system alone.
CursorFrame ==
    /\ flushed
    /\ NextFrame({}, CursorChoices)

CursorEndStage ==
    /\ ran = {"cursor"}
    /\ EndStage

NextCursor ==
    \/ CursorFrame
    \/ CursorStep
    \/ CursorEndStage

SpecCursor == Init /\ [][NextCursor]_vars

\* The three systems in one frame, in any order, on a reduced input.
JointKeys == {"W", "D", "Up", "Right"}

JointCursors == {{}, {[x |-> WindowWidth, y |-> HalfHeight]}}

Frame ==
    /\ flushed
    /\ NextFrame(JointKeys, JointCursors)

StageEnd ==
    /\ ran = Systems
    /\ EndStage

Next ==
    \/ Frame
    \/ KeyboardStep
    \/ DashStep
    \/ CursorStep
    \/ StageEnd

Spec == Init /\ [][Next]_vars

---------------------------------------------------------------------------
(* Steps, as the properties below name them *)

KeyboardRan == "keyboard" \notin ran /\ "keyboard" \in ran'

DashRan == "dash" \notin ran /\ "dash" \in ran'

CursorRan == "cursor" \notin ran /\ "cursor" \in ran'

StageEnded == ~flushed /\ flushed'

\* The arrow keys pressed in this frame.
EdgePresses == (kb_pressed \ kb_prev) \cap ArrowKeys

\* The sum of the unit vectors of a set of arrow keys.
SumOf(E) ==
    [x |-> (IF "Right" \in E THEN 1 ELSE 0) - (IF "Left" \in E THEN 1 ELSE 0),
     y |-> (IF "Up" \in E THEN 1 ELSE 0) - (IF "Down" \in E THEN 1 ELSE 0)]

Zero == [x |-> 0, y |-> 0]

---------------------------------------------------------------------------
(* Properties of keyboard_controls_system, under SpecKeyboard *)

\* C1: once the keyboard routine has run in a frame, Movement.x is +1 exactly
\* when right (D) is held and left (A) is not, -1 exactly when left is held
\* and right is not, and 0 otherwise, whatever it was before; it is always
\* one of -1, 0, 1.
C1_AxisFromHeldKeys ==
    /\ movement.x \in {-1, 0, 1}
    /\ "keyboard" \in ran =>
         LET right == "D" \in kb_pressed
             left  == "A" \in kb_pressed
         IN  /\ (movement.x = 1) <=> (right /\ ~left)
             /\ (movement.x = -1) <=> (left /\ ~right)
             /\ (movement.x = 0) <=> (right <=> left)

\* The routine has run with both keys held, in the frame after one where only
\* right was held (and the axis was 1): the axis is 0.
C1_Witness ==
    /\ "keyboard" \in ran
    /\ kb_prev = {"D"}
    /\ kb_pressed = {"A", "D"}
    /\ movement.x = 0

\* C2: Movement.jump becomes true only in a run of the keyboard routine in a
\* frame where the up key (W) is held and was not held in the previous frame;
\* the routine never makes it false; and when it is false while W stays held,
\* a run of the routine leaves it false.
C2_JumpEdgeTriggered ==
    [][/\ (~movement.jump /\ movement'.jump) =>
             (KeyboardRan /\ "W" \in kb_pressed /\ "W" \notin kb_prev)
       /\ (KeyboardRan /\ movement.jump) => movement'.jump
       /\ (KeyboardRan /\ ~movement.jump /\ "W" \in kb_pressed /\ "W" \in kb_prev) =>
             ~movement'.jump]_vars

\* W is held over two frames, the routine has run in the second, and the jump
\* (reset by its consumer) is false.
C2_Witness ==
    /\ "keyboard" \in ran
    /\ "W" \in kb_pressed
    /\ "W" \in kb_prev
    /\ ~movement.jump

\* C8: a run of the keyboard routine leaves Movement.is_fast_falling true when
\* the down key (S) is held, whether or not it was held before, and otherwise
\* leaves it as it was; no step of this module makes it false.
C8_FastFallLevelTriggered ==
    [][/\ KeyboardRan =>
             (movement'.is_fast_falling = (movement.is_fast_falling \/ "S" \in kb_pressed))
       /\ (movement.is_fast_falling /\ ~movement'.is_fast_falling) =>
             UNCHANGED <<ran, flushed>>]_vars

\* S is held over two frames and the routine has run in the second: the fast
\* fall is set.
C8_Witness ==
    /\ "keyboard" \in ran
    /\ "S" \in kb_pressed
    /\ "S" \in kb_prev
    /\ movement.is_fast_falling

---------------------------------------------------------------------------
(* Properties of dash_direction_arrows, under SpecDash *)

C4_OppositeCancels ==
    [][DashRan =>
          /\ (dash.direction.x > 0 /\ EdgePresses = {"Left"}) => dash'.direction.x = 0
          /\ (dash.direction.x < 0 /\ EdgePresses = {"Right"}) => dash'.direction.x = 0
          /\ (dash.direction.y > 0 /\ EdgePresses = {"Down"}) => dash'.direction.y = 0
          /\ (dash.direction.y < 0 /\ EdgePresses = {"Up"}) => dash'.direction.y = 0]_vars

\* C5: with no external reset, each component of the stored direction is
\* one of -1, 0, 1.
C5_UnitDirections ==
    /\ dash.direction.x \in {-1, 0, 1}
    /\ dash.direction.y \in {-1, 0, 1}

\* C9: trying_to_dash is true only if the stored direction is not (0, 0).
C9_TryingOnlyNonEmpty ==
    dash.trying_to_dash => ~(dash.direction.x = 0 /\ dash.direction.y = 0)

\* The routine has run in a frame where Left and Right were pressed together
\* (they cancel) while a request is pending.
C9_Witness ==
    /\ "dash" \in ran
    /\ EdgePresses = {"Left", "Right"}
    /\ dash.trying_to_dash

---------------------------------------------------------------------------
(* Properties of cursor_system, under SpecCursor *)

\* C6: there is never more than one aim marker; once the stage of a frame has
\* ended, there is exactly one if the cursor is inside the window in that
\* frame, and none if it is outside.
C6_OneMarkerIffInside ==
    /\ Cardinality(markers) <= 1
    /\ (flushed /\ "cursor" \in ran) =>
         IF cursor # {} THEN Cardinality(markers) = 1 ELSE markers = {}

\* The stage of a frame with the cursor outside has ended after a frame where
\* it was inside (the stored coordinates are not the default): no marker.
C6_Witness ==
    /\ flushed
    /\ "cursor" \in ran
    /\ cursor = {}
    /\ markers = {}
    /\ mouse # MouseCoordinatesDefault

\* C7: when the stage of a frame with the cursor inside the window ends, every
\* aim marker is at the stored coordinates, the frame of the spawn included;
\* and a run of the cursor routine with the cursor outside keeps the stored
\* coordinates.
C7_MarkerAtCursor ==
    [][/\ (StageEnded /\ cursor # {}) =>
             \A e \in markers' : e.x = mouse'.x /\ e.y = mouse'.y
       /\ (CursorRan /\ cursor = {}) => mouse' = mouse]_vars

---------------------------------------------------------------------------
(* Independence of the three systems, under Spec *)

\* The 6 orders in which the engine may run the three systems.
Orders ==
    {<<"cursor", "keyboard", "dash">>, <<"cursor", "dash", "keyboard">>,
     <<"keyboard", "cursor", "dash">>, <<"keyboard", "dash", "cursor">>,
     <<"dash", "cursor", "keyboard">>, <<"dash", "keyboard", "cursor">>}

\* The world after the three systems have run in the given order.
RunOrder(o, inp, w) ==
    RunSystem(o[3], inp, RunSystem(o[2], inp, RunSystem(o[1], inp, w)))

\* The world after the frame: the systems in the given order, then the stage end.
FrameResult(o, inp, w) ==
    LET r == RunOrder(o, inp, w)
    IN  [r EXCEPT !.markers = ApplyCommands(r.commands, r.markers),
                  !.commands = <<>>]

\* C10: from any reachable state, the 6 orders of the three systems give the
\* same state at the end of the frame; the keyboard routine changes at most
\* Movement.x, jump and is_fast_falling, the dash routine at most
\* Dash.trying_to_dash and direction, the cursor routine at most
\* MouseCoordinates, the markers and the queue.
C10_OrderIndependent ==
    LET k == RunSystem("keyboard", FrameInput, World)
        d == RunSystem("dash", FrameInput, World)
        c == RunSystem("cursor", FrameInput, World)
        registered == FrameResult(<<"cursor", "keyboard", "dash">>, FrameInput, World)
    IN  /\ \A o \in Orders : FrameResult(o, FrameInput, World) = registered
        /\ k = [World EXCEPT !.movement.x = k.movement.x,
                             !.movement.jump = k.movement.jump,
                             !.movement.is_fast_falling = k.movement.is_fast_falling]
        /\ d = [World EXCEPT !.dash.trying_to_dash = d.dash.trying_to_dash,
                             !.dash.direction = d.dash.direction]
        /\ c = [World EXCEPT !.mouse = c.mouse,
                             !.markers = c.markers,
                             !.commands = c.commands]

\* A frame in which every key and the cursor came in at once has ended: the
\* three systems have all written their state.
C10_Witness ==
    /\ flushed
    /\ ran = Systems
    /\ kb_prev = {}
    /\ kb_pressed = JointKeys
    /\ cursor # {}
    /\ movement.jump
    /\ movement.x = 1
    /\ dash.trying_to_dash
    /\ dash.direction = [x |-> 1, y |-> 1]
    /\ Cardinality(markers) = 1

=============================================================================
